---------------------------- MODULE Spec2Model ----------------------------
(***************************************************************************)
(* A model of pyicloud's photo service (src/pyicloud/services/photos.py):  *)
(* PhotosService (the collection catalog and its folder listing),          *)
(* PhotoAlbum (the count memo and the paginating generator `photos`) and   *)
(* PhotoAsset.delete.  The remote store and the session are the            *)
(* environment: every response, and every failure of a request, is a       *)
(* nondeterministic choice.                                                *)
(***************************************************************************)
EXTENDS Integers, Sequences, FiniteSets, TLC

(***************************************************************************)
(* Bounds of the model.                                                    *)
(***************************************************************************)
\* records in one item-list response
MaxPageLen == 3
\* item-list requests of one iteration (failed ones included)
MaxRequests == 3
\* largest itemCount the store answers a count query with
MaxCount == 2
\* count queries sent on one album handle
MaxCountReqs == 2
\* iterations started on one album handle
MaxIters == 2
\* modify requests sent
MaxModify == 1

(***************************************************************************)
(* Python values.  None is the empty tuple and a present value x is <<x>>, *)
(* so that `x is None` and a stored 0 are told apart.                      *)
(***************************************************************************)
None == << >>
Some(x) == << x >>
Value(o) == o[1]

Directions == {"ASCENDING", "DESCENDING"}

\* recordName of the master records the store may return
MasterIds == {"m1", "m2"}
\* recordName of the asset records the store may return
AssetIds == {"a1"}

\* The records of an item-list response: masters, assets (each naming its
\* master in fields.masterRef.value.recordName) and records of another type;
\* masters and assets carry the store's recordChangeTag.
MasterRecs ==
    [recordType : {"CPLMaster"}, recordName : MasterIds, recordChangeTag : {"mtag"}]
AssetRecs ==
    [recordType : {"CPLAsset"}, recordName : AssetIds, recordChangeTag : {"atag"},
     masterRef : MasterIds]
OtherRecs == {[recordType |-> "CPLOther"]}
PageRecords == MasterRecs \cup AssetRecs \cup OtherRecs

SeqsUpTo(S, n) == UNION {[1..k -> S] : k \in 0..n}

\* response["records"] of an item-list response
PageResponses == SeqsUpTo(PageRecords, MaxPageLen)

(***************************************************************************)
(* Text.  A str is the tuple of its code points, a bytes value the tuple   *)
(* of its bytes; the names below are the keys of SMART_FOLDERS.            *)
(***************************************************************************)
\* "All Photos"
N_AllPhotos == <<65, 108, 108, 32, 80, 104, 111, 116, 111, 115>>
\* "Time-lapse"
N_Timelapse == <<84, 105, 109, 101, 45, 108, 97, 112, 115, 101>>
\* "Videos"
N_Videos == <<86, 105, 100, 101, 111, 115>>
\* "Slo-mo"
N_Slomo == <<83, 108, 111, 45, 109, 111>>
\* "Bursts"
N_Bursts == <<66, 117, 114, 115, 116, 115>>
\* "Favorites"
N_Favorites == <<70, 97, 118, 111, 114, 105, 116, 101, 115>>
\* "Panoramas"
N_Panoramas == <<80, 97, 110, 111, 114, 97, 109, 97, 115>>
\* "Screenshots"
N_Screenshots == <<83, 99, 114, 101, 101, 110, 115, 104, 111, 116, 115>>
\* "Live"
N_Live == <<76, 105, 118, 101>>
\* "Recently Deleted"
N_RecentlyDeleted == <<82, 101, 99, 101, 110, 116, 108, 121, 32, 68, 101, 108, 101, 116, 101, 100>>
\* "Hidden"
N_Hidden == <<72, 105, 100, 100, 101, 110>>

\* The value of a character in the base64 alphabet, -1 outside it.
B64Value(c) ==
    IF c \in 65..90 THEN c - 65
    ELSE IF c \in 97..122 THEN c - 71
    ELSE IF c \in 48..57 THEN c + 4
    ELSE IF c = 43 THEN 62
    ELSE IF c = 47 THEN 63
    ELSE -1

\* base64.b64decode(s) without validation (binascii.a2b_base64): characters
\* outside the alphabet are skipped, a complete pad sequence ends the input,
\* and an incomplete last quad raises (None).
RECURSIVE a2b_base64(_, _, _, _, _)
a2b_base64(s, quad_pos, leftchar, pads, out) ==
    IF s = << >>
    THEN IF quad_pos # 0 THEN None ELSE Some(out)
    ELSE LET c == Head(s)
             v == B64Value(c)
         IN IF c = 61
            THEN IF quad_pos >= 2 /\ quad_pos + pads + 1 >= 4
                 THEN Some(out)
                 ELSE a2b_base64(Tail(s), quad_pos, leftchar,
                                 IF quad_pos >= 2 THEN pads + 1 ELSE pads, out)
            ELSE IF v = -1
            THEN a2b_base64(Tail(s), quad_pos, leftchar, pads, out)
            ELSE CASE quad_pos = 0 -> a2b_base64(Tail(s), 1, v, 0, out)
                   [] quad_pos = 1 -> a2b_base64(Tail(s), 2, v % 16, 0,
                                                 Append(out, leftchar * 4 + (v \div 16)))
                   [] quad_pos = 2 -> a2b_base64(Tail(s), 3, v % 4, 0,
                                                 Append(out, leftchar * 16 + (v \div 4)))
                   [] quad_pos = 3 -> a2b_base64(Tail(s), 0, 0, 0,
                                                 Append(out, leftchar * 64 + v))

b64decode(s) == a2b_base64(s, 0, 0, 0, << >>)

Continuation(b) == b \in 128..191

\* bytes.decode("utf-8"): None when the bytes are no UTF-8 text.
RECURSIVE utf8_decode(_, _)
utf8_decode(b, out) ==
    IF b = << >> THEN Some(out)
    ELSE IF b[1] < 128
    THEN utf8_decode(Tail(b), Append(out, b[1]))
    ELSE IF b[1] \in 194..223 /\ Len(b) >= 2 /\ Continuation(b[2])
    THEN utf8_decode(SubSeq(b, 3, Len(b)),
                     Append(out, (b[1] - 192) * 64 + (b[2] - 128)))
    ELSE IF /\ b[1] \in 224..239 /\ Len(b) >= 3
            /\ Continuation(b[2]) /\ Continuation(b[3])
            /\ (b[1] = 224 => b[2] >= 160)
            /\ (b[1] = 237 => b[2] <= 159)
    THEN utf8_decode(SubSeq(b, 4, Len(b)),
                     Append(out, (b[1] - 224) * 4096 + (b[2] - 128) * 64 + (b[3] - 128)))
    ELSE IF /\ b[1] \in 240..244 /\ Len(b) >= 4
            /\ Continuation(b[2]) /\ Continuation(b[3]) /\ Continuation(b[4])
            /\ (b[1] = 240 => b[2] >= 144)
            /\ (b[1] = 244 => b[2] <= 143)
    THEN utf8_decode(SubSeq(b, 5, Len(b)),
                     Append(out, (b[1] - 240) * 262144 + (b[2] - 128) * 4096
                                 + (b[3] - 128) * 64 + (b[4] - 128)))
    ELSE None

\* base64.b64decode(value).decode("utf-8") (lines 192-194): None when either raises.
DecodeName(value) ==
    LET raw == b64decode(value)
    IN IF raw = None THEN None ELSE utf8_decode(Value(raw), << >>)

(***************************************************************************)
(* PhotosService.SMART_FOLDERS (lines 17-126) and the albums made of it.   *)
(***************************************************************************)
SmartFilter(value) ==
    Some(<<[fieldName |-> "smartAlbum", comparator |-> "EQUALS",
            type |-> "STRING", value |-> value]>>)

SmartProps(obj_type, list_type, query_filter) ==
    [obj_type |-> obj_type, list_type |-> list_type,
     direction |-> "ASCENDING", query_filter |-> query_filter]

SMART_FOLDERS ==
    (N_AllPhotos :> SmartProps("CPLAssetByAddedDate",
                               "CPLAssetAndMasterByAddedDate", None))
    @@ (N_Timelapse :> SmartProps("CPLAssetInSmartAlbumByAssetDate:Timelapse",
                                  "CPLAssetAndMasterInSmartAlbumByAssetDate",
                                  SmartFilter("TIMELAPSE")))
    @@ (N_Videos :> SmartProps("CPLAssetInSmartAlbumByAssetDate:Video",
                               "CPLAssetAndMasterInSmartAlbumByAssetDate",
                               SmartFilter("VIDEO")))
    @@ (N_Slomo :> SmartProps("CPLAssetInSmartAlbumByAssetDate:Slomo",
                              "CPLAssetAndMasterInSmartAlbumByAssetDate",
                              SmartFilter("SLOMO")))
    @@ (N_Bursts :> SmartProps("CPLAssetBurstStackAssetByAssetDate",
                               "CPLBurstStackAssetAndMasterByAssetDate", None))
    @@ (N_Favorites :> SmartProps("CPLAssetInSmartAlbumByAssetDate:Favorite",
                                  "CPLAssetAndMasterInSmartAlbumByAssetDate",
                                  SmartFilter("FAVORITE")))
    @@ (N_Panoramas :> SmartProps("CPLAssetInSmartAlbumByAssetDate:Panorama",
                                  "CPLAssetAndMasterInSmartAlbumByAssetDate",
                                  SmartFilter("PANORAMA")))
    @@ (N_Screenshots :> SmartProps("CPLAssetInSmartAlbumByAssetDate:Screenshot",
                                    "CPLAssetAndMasterInSmartAlbumByAssetDate",
                                    SmartFilter("SCREENSHOT")))
    @@ (N_Live :> SmartProps("CPLAssetInSmartAlbumByAssetDate:Live",
                             "CPLAssetAndMasterInSmartAlbumByAssetDate",
                             SmartFilter("LIVE")))
    @@ (N_RecentlyDeleted :> SmartProps("CPLAssetDeletedByExpungedDate",
                                        "CPLAssetAndMasterDeletedByExpungedDate", None))
    @@ (N_Hidden :> SmartProps("CPLAssetHiddenByAssetDate",
                               "CPLAssetAndMasterHiddenByAssetDate", None))

\* PhotoAlbum(service, name, list_type, obj_type, direction, query_filter)
\* (lines 252-271): the definition a handle is constructed with.
PhotoAlbum(name, list_type, obj_type, dir, query_filter) ==
    [name |-> name, list_type |-> list_type, obj_type |-> obj_type,
     direction |-> dir, query_filter |-> query_filter]

\* Lines 170-173
SmartAlbums ==
    [name \in DOMAIN SMART_FOLDERS |->
        PhotoAlbum(name, SMART_FOLDERS[name].list_type, SMART_FOLDERS[name].obj_type,
                   SMART_FOLDERS[name].direction, SMART_FOLDERS[name].query_filter)]

(***************************************************************************)
(* The folder records the store may list (CPLAlbumByPositionLive).         *)
(***************************************************************************)
RootFolder == "----Root-Folder----"
FolderIds == {RootFolder, "F1", "F2"}

\* "QWxsIFBob3Rvcw==", the base64 text of "All Photos"
Enc_AllPhotos == <<81, 87, 120, 115, 73, 70, 66, 111, 98, 51, 82, 118, 99, 119, 61, 61>>
\* "VHJpcA==", the base64 text of "Trip"
Enc_Trip == <<86, 72, 74, 112, 99, 65, 61, 61>>
\* "/w==", the base64 text of the byte 0xFF, which is no UTF-8 text
Enc_Invalid == <<47, 119, 61, 61>>
\* "Trip"
N_Trip == <<84, 114, 105, 112>>

EncNames == {Enc_AllPhotos, Enc_Trip, Enc_Invalid}

\* fields.albumNameEnc and fields.isDeleted are absent (None) or hold a value.
FolderRecords ==
    [recordName : FolderIds,
     albumNameEnc : {None} \cup {Some(e) : e \in EncNames},
     isDeleted : {None, Some(0), Some(1)}]

Markers == {"mk1", "mk2"}

VARIABLES
    \* PhotoAlbum
    direction,          \* self.direction
    exception_handler,  \* self.exception_handler is set (truthy)
    _len,               \* self._len: None or Some(count)
    count_reqs,         \* count queries sent on this handle
    len_ret,            \* what the last len() returned: None (it raised) or Some(count)
    other,              \* the frame of a second generator over the same handle,
                        \* the one the consumer is not advancing
    album_def,          \* self.name, self.list_type, self.obj_type, self.query_filter
                        \* and self.page_size
    table_entry,        \* None when the handle was not made of SMART_FOLDERS, else
                        \* Some(query_filter of the entry it was made of): the
                        \* object self.query_filter is
    query,              \* the query of the latest photos_request call: None or Some
    \* the consumer of one generator
    nsent,              \* item-list requests this generator has sent
    npulls,             \* next() calls the consumer has made on this generator
    stopped,            \* the consumer has dropped the generator undrained
    \* one generator of PhotoAlbum.photos
    it_pc,              \* "none" | "request" | "yield" | "done" | "failed"
    it_error,           \* the exception that left the generator, "" when none
    offset,             \* local offset
    exception_retries,  \* local exception_retries
    master_records,     \* masters of the current page not yet visited by the for loop
    asset_records,      \* local asset_records: master id -> asset record
    page,               \* response["records"] of the latest decoded response
    nrequests,          \* photos_request calls of this generator
    last_request,       \* the latest photos_request call: Some([startRank, ok]), ok: it returned
    npages,             \* responses decoded by this generator
    page_n,             \* master_records_len of the latest decoded response, None before it
    total,              \* sum of master_records_len over the decoded responses
    page_yielded,       \* entities yielded from the current page
    nyielded,           \* entities yielded by this generator
    entity,             \* the latest entity yielded: Some([master, asset])
    last_handler_call,  \* the latest exception_handler call: Some([attempt, startRank])
    niter,              \* generators started on this handle
    \* PhotoAsset.delete
    modify_reqs,        \* records/modify requests sent
    ndelete,            \* calls of PhotoAsset.delete
    \* PhotosService
    _albums,            \* self._albums: None or Some(name -> album)
    svc_pc,             \* "idle", or where the running albums access stands
    svc_op,             \* the accessor that runs or ran last: "albums" | "all"
    response,           \* _fetch_folders' local response: Some([records, marker])
    records,            \* _fetch_folders' local records
    folder_requests,    \* continuationMarker of each folder-listing request sent, None without
    feed,               \* the folder-listing responses received, in order
    ret,                \* how the latest accessor call ended: "none" | "built" (it
                        \* returned after building the catalog) | "cached" (it
                        \* returned the stored one) | "raised"
    constructed,        \* PhotosService.__init__: "new" (not run yet) | "ready" (it
                        \* returned) | "not_activated" (it raised
                        \* PyiCloudServiceNotActivatedException) | "error" (the
                        \* request or the reading of its response raised)
    index_reqs,         \* CheckIndexingState queries sent
    indexing_state,     \* local indexing_state of __init__: None or Some(value)
    \* the PhotoAsset the consumer holds (its records are in `entity`)
    _versions,          \* self._versions: None or Some(key -> version)
    versions_writes,    \* assignments self._versions = {} (line 659)
    naccess,            \* accesses of the versions property
    result              \* the latest filename, versions or download call:
                        \* None, or Some([op, arg, value]), value None when it raised

consumer_vars == <<nsent, npulls, stopped>>
def_vars == <<album_def, table_entry, query>>
album_state == <<direction, exception_handler, _len, count_reqs, len_ret, other,
                 consumer_vars>>
album_vars == <<album_state, def_vars>>
iter_vars == <<it_pc, it_error, offset, exception_retries, master_records,
               asset_records, page, nrequests, last_request, npages, page_n, total,
               page_yielded, nyielded, entity, last_handler_call>>
asset_vars == <<_versions, versions_writes, naccess, result>>
handle_vars == <<album_vars, iter_vars, niter, modify_reqs, ndelete, asset_vars>>
boot_vars == <<constructed, index_reqs, indexing_state>>
svc_vars == <<_albums, svc_pc, svc_op, response, records, folder_requests, feed, ret,
              boot_vars>>
vars == <<handle_vars, svc_vars>>

\* __len__ with the memo tested for truth (`if not self._len`): a stored 0
\* is taken for no memo.
LenFalsyMemo(resp) ==
    IF _len = None \/ _len = Some(0)
    THEN /\ count_reqs' = count_reqs + 1
         /\ _len' = resp
    ELSE UNCHANGED <<_len, count_reqs>>

(***************************************************************************)
(* PhotoAlbum._list_query_gen (lines 388-420) and photos_request (lines    *)
(* 302-311).  A list is an object: the handle made of a SMART_FOLDERS      *)
(* entry holds the very list of the entry, so what a call does to its      *)
(* query_filter argument is returned next to the query it builds.          *)
(***************************************************************************)
\* page_size=100 (line 260)
DefaultPageSize == 100

\* The attributes __init__ sets from its arguments (lines 262-268), the
\* direction apart.
Definition(made, page_size) ==
    [name |-> made.name, list_type |-> made.list_type, obj_type |-> made.obj_type,
     query_filter |-> made.query_filter, page_size |-> page_size]

\* PhotoAlbum(self, name, **props) of line 171: the handle of a smart album.
MadeOfTable(smart_name) ==
    /\ album_def = Definition(SmartAlbums[smart_name], DefaultPageSize)
    /\ table_entry = Some(SMART_FOLDERS[smart_name].query_filter)

\* SMART_FOLDERS as the program sees it: the entry the handle was made of
\* holds the list the handle holds.
SmartFoldersNow ==
    [smart_name \in DOMAIN SMART_FOLDERS |->
        IF table_entry # None /\ smart_name = album_def.name
        THEN [SMART_FOLDERS[smart_name] EXCEPT !.query_filter = Value(table_entry)]
        ELSE SMART_FOLDERS[smart_name]]

\* Lines 390-401: the two clauses every query starts with.
BaseFilter(off, dir) ==
    <<[fieldName |-> "startRank", comparator |-> "EQUALS",
       type |-> "INT64", value |-> off],
      [fieldName |-> "direction", comparator |-> "EQUALS",
       type |-> "STRING", value |-> dir]>>

\* `if query_filter:` (line 417): neither None nor an empty list.
TruthyList(query_filter) == query_filter # None /\ Value(query_filter) # << >>

\* The query built with the base clauses appended to the list passed in,
\* which is then the filter of the query.
list_query_gen_in_place(off, list_type, dir, query_filter, page_size) ==
    LET grown == IF TruthyList(query_filter)
                 THEN Value(query_filter) \o BaseFilter(off, dir)
                 ELSE BaseFilter(off, dir)
    IN [query |-> [filterBy |-> grown, recordType |-> list_type,
                   resultsLimit |-> page_size * 2, zoneName |-> "PrimarySync"],
        query_filter |-> IF TruthyList(query_filter) THEN Some(grown) ELSE query_filter]

\* Lines 388-420: filterBy is a new list, extended by query_filter when that
\* is truthy; the list passed in is read only.
list_query_gen(off, list_type, dir, query_filter, page_size) ==
    [query |-> [filterBy |-> IF TruthyList(query_filter)
                             THEN BaseFilter(off, dir) \o Value(query_filter)
                             ELSE BaseFilter(off, dir),
                recordType |-> list_type,
                resultsLimit |-> page_size * 2,
                zoneName |-> "PrimarySync"],
     query_filter |-> query_filter]

\* Lines 302-311: the query is built of the handle's attributes and posted.
photos_request(off) ==
    \E built \in {list_query_gen(off, album_def.list_type, direction,
                                  album_def.query_filter, album_def.page_size)} :
       /\ query' = Some(built.query)
       /\ album_def' = [album_def EXCEPT !.query_filter = built.query_filter]
       /\ table_entry' = IF table_entry = None THEN None
                         ELSE Some(built.query_filter)

(***************************************************************************)
(* PhotoAlbum.__len__ (lines 281-298).  resp is what the count query would *)
(* answer: Some(itemCount), or None when the request or its decoding       *)
(* raises.  The query is sent only when the memo is None; the value        *)
(* returned is _len' (None: the call raised).                              *)
(***************************************************************************)
__len__(resp) ==
    IF _len = None
    THEN /\ count_reqs' = count_reqs + 1
         /\ _len' = resp
    ELSE UNCHANGED <<_len, count_reqs>>

CountAnswers == {None} \cup {Some(c) : c \in 0..MaxCount}

\* len(album)
LenCall ==
    /\ _len = None => count_reqs < MaxCountReqs
    /\ \E resp \in CountAnswers :
          /\ __len__(resp)
          /\ len_ret' = _len'
    /\ UNCHANGED <<direction, exception_handler, other, consumer_vars, def_vars,
                   iter_vars, niter,
                   modify_reqs, ndelete, svc_vars, asset_vars>>

(***************************************************************************)
(* PhotoAlbum.photos (lines 313-360), a generator.                         *)
(***************************************************************************)
\* The initial offset of a descending traversal taken as the count itself.
InitialOffsetAtCount(length) == IF direction = "DESCENDING" THEN Value(length) ELSE 0

\* Lines 316-319: the initial offset, given what len(self) returned.
InitialOffset(length) == IF direction = "DESCENDING" THEN Value(length) - 1 ELSE 0

\* A fresh generator is resumed for the first time (lines 316-321).
IterStart ==
    /\ niter < MaxIters
    /\ (direction = "DESCENDING" /\ _len = None) => count_reqs < MaxCountReqs
    /\ niter' = niter + 1
    /\ \E resp \in CountAnswers :
          IF direction = "DESCENDING"
          THEN /\ __len__(resp)
               /\ IF _len' = None
                  THEN /\ it_pc' = "failed"
                       /\ it_error' = "count"
                       /\ offset' = 0
                  ELSE /\ it_pc' = "request"
                       /\ it_error' = ""
                       /\ offset' = InitialOffset(_len')
          ELSE /\ UNCHANGED <<_len, count_reqs>>
               /\ it_pc' = "request"
               /\ it_error' = ""
               /\ offset' = InitialOffset(None)
    /\ exception_retries' = 0
    /\ master_records' = << >>
    /\ asset_records' = << >>
    /\ page' = << >>
    /\ nrequests' = 0
    /\ last_request' = None
    /\ npages' = 0
    /\ page_n' = None
    /\ total' = 0
    /\ page_yielded' = 0
    /\ nyielded' = 0
    /\ entity' = None
    /\ last_handler_call' = None
    /\ UNCHANGED <<direction, exception_handler, other, consumer_vars, def_vars,
                   len_ret, modify_reqs,
                   ndelete, svc_vars, asset_vars>>

\* Lines 338-345: the asset records by master id (a later one replaces an
\* earlier one), and the master records in response order.
RECURSIVE SplitRecords(_, _, _)
SplitRecords(recs, assets, masters) ==
    IF recs = << >>
    THEN [asset_records |-> assets, master_records |-> masters]
    ELSE LET rec == Head(recs) IN
         IF rec.recordType = "CPLAsset"
         THEN SplitRecords(Tail(recs),
                           [id \in DOMAIN assets \cup {rec.masterRef} |->
                               IF id = rec.masterRef THEN rec ELSE assets[id]],
                           masters)
         ELSE IF rec.recordType = "CPLMaster"
         THEN SplitRecords(Tail(recs), assets, Append(masters, rec))
         ELSE SplitRecords(Tail(recs), assets, masters)

\* The offset advanced upwards whatever the direction.
AdvanceOffsetUp(off, n) == off + n

\* Lines 349-352
AdvanceOffset(off, n) ==
    IF direction = "DESCENDING" THEN off - n ELSE off + n

\* The loop left on a page shorter than two masters.
ExhaustedOnShortPage(n) == n < 2

\* Line 360: the loop is left when the page holds no master record.
Exhausted(n) == n = 0

\* The attempt counter left as it is when a request succeeds.
RetriesKept(retries) == retries

\* Line 335: photos_request returned, the attempt counter starts over.
RetriesAfterRequest(retries) == 0

\* Lines 325, 335-360: photos_request returns, the response decodes, the page
\* is split and the offset advanced; a page without masters ends the generator.
PageReceivedFrom(responses) ==
    /\ it_pc = "request"
    /\ nrequests < MaxRequests
    /\ \E recs \in responses :
          LET split == SplitRecords(recs, << >>, << >>)
              n == Len(split.master_records)
          IN /\ nrequests' = nrequests + 1
             /\ last_request' = Some([startRank |-> offset, ok |-> TRUE])
             /\ exception_retries' = RetriesAfterRequest(exception_retries)
             /\ npages' = npages + 1
             /\ page_n' = Some(n)
             /\ total' = total + n
             /\ page' = recs
             /\ asset_records' = split.asset_records
             /\ master_records' = split.master_records
             /\ page_yielded' = 0
             /\ IF ~Exhausted(n)
                THEN /\ offset' = AdvanceOffset(offset, n)
                     /\ it_pc' = "yield"
                ELSE /\ offset' = offset
                     /\ it_pc' = "done"
    /\ photos_request(offset)
    /\ UNCHANGED <<album_state, it_error, nyielded, entity, last_handler_call,
                   niter, modify_reqs, ndelete, svc_vars, asset_vars>>

\* The store may answer with any page.
PageReceived == PageReceivedFrom(PageResponses)

\* Line 336 raises: request.json() is outside the try statement.
ResponseDecodeFails ==
    /\ it_pc = "request"
    /\ nrequests < MaxRequests
    /\ nrequests' = nrequests + 1
    /\ last_request' = Some([startRank |-> offset, ok |-> TRUE])
    /\ exception_retries' = RetriesAfterRequest(exception_retries)
    /\ it_pc' = "failed"
    /\ it_error' = "decode"
    /\ photos_request(offset)
    /\ UNCHANGED <<album_state, offset, master_records, asset_records, page, npages,
                   page_n, total, page_yielded, nyielded, entity,
                   last_handler_call, niter, modify_reqs, ndelete, svc_vars, asset_vars>>

\* The handled failure with the page skipped: the offset moves on by one.
RequestFailsHandledSkipping ==
    /\ it_pc = "request"
    /\ nrequests < MaxRequests
    /\ exception_handler
    /\ nrequests' = nrequests + 1
    /\ last_request' = Some([startRank |-> offset, ok |-> FALSE])
    /\ exception_retries' = exception_retries + 1
    /\ last_handler_call' = Some([attempt |-> exception_retries', startRank |-> offset])
    /\ offset' = offset + 1
    /\ UNCHANGED <<it_pc, it_error>>
    /\ photos_request(offset)
    /\ UNCHANGED <<album_state, master_records, asset_records, page, npages,
                   page_n, total, page_yielded, nyielded, entity, niter,
                   modify_reqs, ndelete, svc_vars, asset_vars>>

\* Lines 326-330: photos_request raises and a handler is set; the handler is
\* called with the incremented counter and returns, or raises itself.
RequestFailsHandled ==
    /\ it_pc = "request"
    /\ nrequests < MaxRequests
    /\ exception_handler
    /\ nrequests' = nrequests + 1
    /\ last_request' = Some([startRank |-> offset, ok |-> FALSE])
    /\ exception_retries' = exception_retries + 1
    /\ last_handler_call' = Some([attempt |-> exception_retries', startRank |-> offset])
    /\ \E handler_returns \in BOOLEAN :
          IF handler_returns
          THEN UNCHANGED <<it_pc, it_error>>
          ELSE it_pc' = "failed" /\ it_error' = "handler"
    /\ photos_request(offset)
    /\ UNCHANGED <<album_state, offset, master_records, asset_records, page, npages,
                   page_n, total, page_yielded, nyielded, entity, niter,
                   modify_reqs, ndelete, svc_vars, asset_vars>>

\* Lines 326, 331-333: photos_request raises and no handler is set.
RequestFailsUnhandled ==
    /\ it_pc = "request"
    /\ nrequests < MaxRequests
    /\ ~exception_handler
    /\ nrequests' = nrequests + 1
    /\ last_request' = Some([startRank |-> offset, ok |-> FALSE])
    /\ it_pc' = "failed"
    /\ it_error' = "request"
    /\ photos_request(offset)
    /\ UNCHANGED <<album_state, offset, exception_retries, master_records,
                   asset_records, page, npages, page_n, total, page_yielded, nyielded,
                   entity, last_handler_call, niter, modify_reqs, ndelete, svc_vars, asset_vars>>

\* The asset record taken without regard to the master it names.
LookupAnyAsset(assets, record_name) ==
    assets[CHOOSE id \in DOMAIN assets : id # record_name \/ DOMAIN assets = {id}]

\* asset_records[record_name] (line 357)
LookupAsset(assets, record_name) == assets[record_name]

\* One turn of the for loop with a master that has no asset passed over.
YieldNextSkipping ==
    /\ it_pc = "yield"
    /\ LET master_record == Head(master_records)
           record_name == master_record.recordName
       IN /\ IF record_name \in DOMAIN asset_records
             THEN /\ entity' = Some([master |-> master_record,
                                     asset |-> asset_records[record_name]])
                  /\ nyielded' = nyielded + 1
                  /\ page_yielded' = page_yielded + 1
             ELSE UNCHANGED <<entity, nyielded, page_yielded>>
          /\ master_records' = Tail(master_records)
          /\ it_pc' = IF Tail(master_records) = << >> THEN "request" ELSE "yield"
    /\ UNCHANGED <<album_vars, it_error, offset, exception_retries, asset_records,
                   page, nrequests, last_request, npages, page_n, total,
                   last_handler_call, niter, modify_reqs, ndelete, svc_vars,
                   asset_vars>>

\* Lines 354-358: one turn of the for loop; asset_records[record_name] raises
\* KeyError when the page holds no asset of that master.
YieldNext ==
    /\ it_pc = "yield"
    /\ LET master_record == Head(master_records)
           record_name == master_record.recordName
       IN IF record_name \in DOMAIN asset_records
          THEN /\ entity' = Some([master |-> master_record,
                                  asset |-> LookupAsset(asset_records, record_name)])
               /\ nyielded' = nyielded + 1
               /\ page_yielded' = page_yielded + 1
               /\ master_records' = Tail(master_records)
               /\ it_pc' = IF Tail(master_records) = << >> THEN "request" ELSE "yield"
               /\ it_error' = it_error
               /\ _versions' = None
          ELSE /\ it_pc' = "failed"
               /\ it_error' = "KeyError"
               /\ UNCHANGED <<entity, nyielded, page_yielded, master_records,
                              _versions>>
    /\ UNCHANGED <<album_vars, offset, exception_retries, asset_records, page, nrequests,
                   last_request, npages, page_n, total, last_handler_call, niter,
                   modify_reqs, ndelete, svc_vars, versions_writes, naccess, result>>

(***************************************************************************)
(* PhotoAlbum.__iter__ (lines 278-279): every iteration gets a generator   *)
(* of its own, whose locals live in its frame.  The consumer advances one  *)
(* generator at a time; the frame of a second one is kept in `other`.      *)
(***************************************************************************)
\* The frame of the generator the consumer is advancing.
Frame ==
    [it_pc |-> it_pc, it_error |-> it_error, offset |-> offset,
     exception_retries |-> exception_retries, master_records |-> master_records,
     asset_records |-> asset_records, page |-> page, nrequests |-> nrequests,
     last_request |-> last_request, npages |-> npages, page_n |-> page_n,
     total |-> total, page_yielded |-> page_yielded, nyielded |-> nyielded,
     entity |-> entity, last_handler_call |-> last_handler_call]

\* The frame of a generator that was not resumed yet.
FreshFrame ==
    [it_pc |-> "none", it_error |-> "", offset |-> 0,
     exception_retries |-> 0, master_records |-> << >>,
     asset_records |-> << >>, page |-> << >>, nrequests |-> 0,
     last_request |-> None, npages |-> 0, page_n |-> None,
     total |-> 0, page_yielded |-> 0, nyielded |-> 0,
     entity |-> None, last_handler_call |-> None]

\* The offset kept on the album handle: a generator goes on from where the
\* generator advanced last has left it.
OffsetOfHandle(frame) == offset

\* The offset a generator goes on from: the local of its frame (lines 316-319).
OffsetOfFrame(frame) == frame.offset

\* The consumer turns to the other generator.
Switch ==
    /\ other' = Frame
    /\ it_pc' = other.it_pc
    /\ it_error' = other.it_error
    /\ offset' = OffsetOfFrame(other)
    /\ exception_retries' = other.exception_retries
    /\ master_records' = other.master_records
    /\ asset_records' = other.asset_records
    /\ page' = other.page
    /\ nrequests' = other.nrequests
    /\ last_request' = other.last_request
    /\ npages' = other.npages
    /\ page_n' = other.page_n
    /\ total' = other.total
    /\ page_yielded' = other.page_yielded
    /\ nyielded' = other.nyielded
    /\ entity' = other.entity
    /\ last_handler_call' = other.last_handler_call
    /\ UNCHANGED <<direction, exception_handler, _len, count_reqs, len_ret,
                   consumer_vars, def_vars, niter, modify_reqs, ndelete, svc_vars, asset_vars>>

(***************************************************************************)
(* PhotoAsset.delete (lines 721-753) on the entity the consumer holds.     *)
(***************************************************************************)
\* The update keyed by the master record's recordName and recordType.
ModifyRequestOfMaster(master_record, asset_record) ==
    [operationType |-> "update",
     recordName |-> master_record.recordName,
     recordType |-> master_record.recordType,
     recordChangeTag |-> master_record.recordChangeTag,
     isDeleted |-> 1,
     atomic |-> TRUE]

\* Lines 728-745: the body of the records/modify request.
ModifyRequest(master_record, asset_record) ==
    [operationType |-> "update",
     recordName |-> asset_record.recordName,
     recordType |-> asset_record.recordType,
     recordChangeTag |-> master_record.recordChangeTag,
     isDeleted |-> 1,
     atomic |-> TRUE]

\* photo.delete()
Delete ==
    /\ Len(modify_reqs) < MaxModify
    /\ entity # None
    /\ ndelete' = ndelete + 1
    /\ modify_reqs' = Append(modify_reqs,
                             ModifyRequest(Value(entity).master, Value(entity).asset))
    /\ UNCHANGED <<album_vars, iter_vars, niter, svc_vars, asset_vars>>

(***************************************************************************)
(* PhotosService.albums (lines 166-213), PhotosService._fetch_folders      *)
(* (lines 215-241) and PhotosService.all (lines 243-246).                  *)
(***************************************************************************)
\* folder requests of one service
MaxFolderPages == 3
\* folder records the store lists in all
MaxFolderRecs == 2

\* Python truth of self._albums: None and the empty dict are false.
Truthy(albums) == albums # None /\ DOMAIN Value(albums) # {}

\* Only the root folder passed over: the isDeleted flag is not looked at.
RootOnly(folder) == folder.recordName = RootFolder

\* Lines 182-185: the root folder and the folders flagged deleted are passed over.
RootOrDeleted(folder) ==
    \/ folder.recordName = RootFolder
    \/ (folder.isDeleted # None /\ Value(folder.isDeleted) # 0)

\* Lines 188-210: the album of a folder.
FolderAlbum(folder, folder_name) ==
    LET folder_id == folder.recordName
    IN PhotoAlbum(folder_name,
                  "CPLContainerRelationLiveByAssetDate",
                  "CPLContainerRelationNotDeletedByAssetDate:" \o folder_id,
                  "ASCENDING",
                  Some(<<[fieldName |-> "parentId", comparator |-> "EQUALS",
                          type |-> "STRING", value |-> folder_id]>>))

\* The album registered only under a name the catalog does not hold yet.
RegisterUnlessPresent(albums, folder_name, album) ==
    [name \in DOMAIN albums \cup {folder_name} |->
        IF name \in DOMAIN albums THEN albums[name] ELSE album]

\* The catalog replaced by one that holds the folder alone.
RegisterReplacing(albums, folder_name, album) ==
    [name \in {folder_name} |-> album]

\* self._albums[folder_name] = album (line 211)
Register(albums, folder_name, album) ==
    [name \in DOMAIN albums \cup {folder_name} |->
        IF name = folder_name THEN album ELSE albums[name]]

\* Lines 175-211: the loop over the fetched folders; raised when decoding a
\* name raises, which leaves the loop with the albums registered so far.
RECURSIVE RegisterFolders(_, _)
RegisterFolders(folders, albums) ==
    IF folders = << >>
    THEN [albums |-> albums, raised |-> FALSE]
    ELSE LET folder == Head(folders) IN
         IF folder.albumNameEnc = None
         THEN RegisterFolders(Tail(folders), albums)
         ELSE IF RootOrDeleted(folder)
         THEN RegisterFolders(Tail(folders), albums)
         ELSE LET folder_name == DecodeName(Value(folder.albumNameEnc)) IN
              IF folder_name = None
              THEN [albums |-> albums, raised |-> TRUE]
              ELSE RegisterFolders(Tail(folders),
                                   Register(albums, Value(folder_name),
                                            FolderAlbum(folder, Value(folder_name))))

\* What the accessor svc_op returned when it returned: albums returns
\* the dict self._albums itself (line 213), all its "All Photos" entry (line 246).
Returned ==
    IF svc_op = "all" THEN Value(_albums)[N_AllPhotos] ELSE Value(_albums)

\* The catalog built on every access.
MustBuildAlways == TRUE

\* Line 169: the catalog is built when self._albums is not truthy.
MustBuild == ~Truthy(_albums)

\* Lines 169-173: the smart albums are stored before the folders are fetched.
AlbumsBegin ==
    /\ constructed = "ready"
    /\ svc_pc = "idle"
    /\ MustBuild
    /\ Len(folder_requests) < MaxFolderPages
    /\ \E op \in {"albums", "all"} : svc_op' = op
    /\ _albums' = Some(SmartAlbums)
    /\ svc_pc' = "first_request"
    /\ UNCHANGED <<response, records, folder_requests, feed, ret, handle_vars, boot_vars>>

\* Lines 169, 213, 246: self._albums is truthy and is returned as it is.
AlbumsCached ==
    /\ constructed = "ready"
    /\ svc_pc = "idle"
    /\ ~MustBuild
    /\ \E op \in {"albums", "all"} :
          /\ svc_op' = op
          /\ ret' = "cached"
    /\ UNCHANGED <<_albums, svc_pc, response, records, folder_requests, feed,
                   handle_vars, boot_vars>>

\* The responses the store may give to the next folder request: within the
\* bounds, the listing ends with the last request the model allows.
FolderResponses ==
    UNION {[records : [1..k -> FolderRecords],
            marker : IF Len(folder_requests) + 1 >= MaxFolderPages
                     THEN {None}
                     ELSE {None} \cup {Some(m) : m \in Markers}] :
           k \in 0..(MaxFolderRecs - Len(records))}

\* Lines 229, 241, 175-213: without a marker in the response the fetch returns
\* its records, the folders are registered and the accessor returns.
AfterResponse(resp, recs) ==
    IF resp.marker # None
    THEN /\ svc_pc' = "next_request"
         /\ UNCHANGED <<_albums, ret>>
    ELSE LET built == RegisterFolders(recs, Value(_albums))
         IN /\ svc_pc' = "idle"
            /\ _albums' = Some(built.albums)
            /\ ret' = IF built.raised THEN "raised" ELSE "built"

\* Lines 216-228: the first request carries no marker.
FetchFoldersFirst ==
    /\ svc_pc = "first_request"
    /\ folder_requests' = Append(folder_requests, None)
    /\ \E resp \in FolderResponses :
          /\ response' = Some(resp)
          /\ feed' = Append(feed, resp)
          /\ records' = resp.records
          /\ AfterResponse(resp, records')
    /\ UNCHANGED <<svc_op, handle_vars, boot_vars>>

\* The marker a follow-up request carries (line 233).
NextMarker == Value(response).marker

\* The records replaced by those of the follow-up response.
ExtendReplacing(recs, resp) == resp.records

\* The records after a follow-up response (line 239).
Extend(recs, resp) == recs \o resp.records

\* Lines 229-239: a follow-up request carries the marker of `response`.
FetchFoldersNext ==
    /\ svc_pc = "next_request"
    /\ folder_requests' = Append(folder_requests, NextMarker)
    /\ \E resp \in FolderResponses :
          /\ response' = Some(resp)
          /\ feed' = Append(feed, resp)
          /\ records' = Extend(records, resp)
          /\ AfterResponse(resp, records')
    /\ UNCHANGED <<svc_op, handle_vars, boot_vars>>

\* Lines 222-226, 235-238: session.post or request.json() raises; the
\* exception leaves _fetch_folders and the accessor.
FetchFoldersFails ==
    /\ svc_pc \in {"first_request", "next_request"}
    /\ folder_requests' = Append(folder_requests,
                                 IF svc_pc = "first_request" THEN None ELSE NextMarker)
    /\ svc_pc' = "idle"
    /\ ret' = "raised"
    /\ UNCHANGED <<_albums, svc_op, response, records, feed, handle_vars, boot_vars>>

(***************************************************************************)
(* PhotosService.__init__ (lines 128-164).                                 *)
(***************************************************************************)
\* response["records"][0]["fields"]["state"]["value"] of the index query
IndexingStates == {"FINISHED", "RUNNING", "finished"}

\* Indexing taken for finished unless the store says it is running.
NotRunning(state) == state # "RUNNING"

\* Line 151: the test the constructor passes.
Finished(state) == state = "FINISHED"

\* No accessor has run on the service.
NoAccess ==
    /\ _albums = None
    /\ svc_pc = "idle"
    /\ svc_op = "albums"
    /\ response = None
    /\ records = << >>
    /\ folder_requests = << >>
    /\ feed = << >>
    /\ ret = "none"

\* Before PhotosService(...) is called.
InitNew ==
    /\ NoAccess
    /\ constructed = "new"
    /\ index_reqs = 0
    /\ indexing_state = None

\* PhotosService(service_root, session, params): the one request of
\* lines 146-148 is sent; it or the reading of the response raises (answer
\* None), or the state is read and tested (lines 150-156).
Construct ==
    /\ constructed = "new"
    /\ _albums' = None
    /\ index_reqs' = index_reqs + 1
    /\ \E answer \in {None} \cup {Some(st) : st \in IndexingStates} :
          /\ indexing_state' = answer
          /\ constructed' = IF answer = None THEN "error"
                             ELSE IF Finished(Value(answer)) THEN "ready"
                             ELSE "not_activated"
    /\ UNCHANGED <<svc_pc, svc_op, response, records, folder_requests, feed, ret,
                   handle_vars>>

\* The service as PhotosService.__init__ leaves it when it returns.
InitService ==
    /\ NoAccess
    /\ constructed = "ready"
    /\ index_reqs = 1
    /\ indexing_state = Some("FINISHED")

(***************************************************************************)
(* An album handle as PhotoAlbum.__init__ leaves it (lines 252-271), with  *)
(* the direction it was constructed with and a handler set or not.         *)
(***************************************************************************)
\* No len() call, no iteration, no delete and no PhotoAsset access was made.
HandleFresh ==
    /\ other = FreshFrame
    /\ query = None
    /\ nsent = 0
    /\ npulls = 0
    /\ stopped = FALSE
    /\ _len = None
    /\ count_reqs = 0
    /\ len_ret = None
    /\ it_pc = "none"
    /\ it_error = ""
    /\ offset = 0
    /\ exception_retries = 0
    /\ master_records = << >>
    /\ asset_records = << >>
    /\ page = << >>
    /\ nrequests = 0
    /\ last_request = None
    /\ npages = 0
    /\ page_n = None
    /\ total = 0
    /\ page_yielded = 0
    /\ nyielded = 0
    /\ last_handler_call = None
    /\ niter = 0
    /\ modify_reqs = << >>
    /\ ndelete = 0
    /\ _versions = None
    /\ versions_writes = 0
    /\ naccess = 0
    /\ result = None

InitAlbum ==
    /\ MadeOfTable(N_AllPhotos)
    /\ direction \in Directions
    /\ exception_handler \in BOOLEAN
    /\ HandleFresh
    /\ entity = None

\* The handle whose iteration the catalog specification leaves aside.
InitHandleIdle ==
    /\ InitAlbum
    /\ direction = "ASCENDING"
    /\ ~exception_handler

(***************************************************************************)
(* Spec: one album handle, its count memo, its generators and delete.      *)
(***************************************************************************)
Init == InitAlbum /\ InitService

Next ==
    \/ LenCall
    \/ IterStart
    \/ PageReceived
    \/ ResponseDecodeFails
    \/ RequestFailsHandled
    \/ RequestFailsUnhandled
    \/ YieldNext
    \/ Delete

Spec == Init /\ [][Next]_vars

(***************************************************************************)
(* SpecCatalog: one service, its construction and its accessors albums and *)
(* all.                                                                    *)
(***************************************************************************)
InitCatalog == InitHandleIdle /\ InitNew

NextCatalog ==
    \/ Construct
    \/ AlbumsBegin
    \/ AlbumsCached
    \/ FetchFoldersFirst
    \/ FetchFoldersNext
    \/ FetchFoldersFails

SpecCatalog == InitCatalog /\ [][NextCatalog]_vars


(***************************************************************************)
(* PhotoAsset (lines 520-719): the lookup tables, filename and versions.   *)
(* A master record's fields is a function from the names of the fields     *)
(* present to their entries: Some(v) for an entry {"value": v}, None for   *)
(* an entry without "value".                                               *)
(***************************************************************************)
\* rendition fields (resXxxRes, ...Width, ...Height, ...FileType) of one master
MaxResFields == 2
\* accesses of the versions property of one PhotoAsset
MaxAccess == 2

\* Lines 530-543
ITEM_TYPES ==
    [t \in {"public.heic", "public.jpeg", "public.png", "com.compuserve.gif",
            "com.microsoft.bmp", "com.adobe.raw-image"} |-> "image"]
    @@ [t \in {"com.apple.quicktime-movie", "public.mpeg-4", "com.apple.m4v-video",
               "public.3gpp", "public.avi", "public.mpeg"} |-> "movie"]

\* "unknown"
S_unknown == <<117, 110, 107, 110, 111, 119, 110>>

\* Lines 545-557; the extensions are "HEIC", "JPG", "PNG", "MOV", "MP4",
\* "M4V", "BMP", "3GP", "AVI" and "MPG".
ITEM_TYPE_EXTENSIONS ==
    ("public.heic" :> <<72, 69, 73, 67>>)
    @@ ("public.jpeg" :> <<74, 80, 71>>)
    @@ ("public.png" :> <<80, 78, 71>>)
    @@ ("com.apple.quicktime-movie" :> <<77, 79, 86>>)
    @@ ("public.mpeg-4" :> <<77, 80, 52>>)
    @@ ("com.apple.m4v-video" :> <<77, 52, 86>>)
    @@ ("com.microsoft.bmp" :> <<66, 77, 80>>)
    @@ ("public.3gpp" :> <<51, 71, 80>>)
    @@ ("public.avi" :> <<65, 86, 73>>)
    @@ ("public.mpeg" :> <<77, 80, 71>>)

\* Lines 559-566
PHOTO_VERSION_LOOKUP ==
    ("original" :> "resOriginal")
    @@ ("medium" :> "resJPEGMed")
    @@ ("thumb" :> "resJPEGThumb")
    @@ ("originalVideo" :> "resOriginalVidCompl")
    @@ ("mediumVideo" :> "resVidMed")
    @@ ("thumbVideo" :> "resVidSmall")

\* Lines 568-572
VIDEO_VERSION_LOOKUP ==
    ("original" :> "resOriginal")
    @@ ("medium" :> "resVidMed")
    @@ ("thumb" :> "resVidSmall")

\* ".png", ".dng", ".mp4", ".gif" (lines 583-589)
S_png == <<46, 112, 110, 103>>
S_dng == <<46, 100, 110, 103>>
S_mp4 == <<46, 109, 112, 52>>
S_gif == <<46, 103, 105, 102>>
\* ".heic", "_HEVC.MOV", ".MOV" (lines 701-706)
S_heic == <<46, 104, 101, 105, 99>>
S_HEVC_MOV == <<95, 72, 69, 86, 67, 46, 77, 79, 86>>
S_MOV == <<46, 77, 79, 86>>
\* "public.jpeg", the content type of a still rendition
T_jpeg == "public.jpeg"
\* the content type tested at line 700
T_quicktime == "com.apple.quicktime-movie"

\* str.find(sub) > -1
Contains(text, sub) ==
    \E i \in 1..(Len(text) - Len(sub) + 1) :
        SubSeq(text, i, i + Len(sub) - 1) = sub

\* str.endswith(suffix)
EndsWith(text, suffix) ==
    /\ Len(text) >= Len(suffix)
    /\ SubSeq(text, Len(text) - Len(suffix) + 1, Len(text)) = suffix

\* str.lower(), on the texts of the model: A-Z are the only cased characters.
Lower(text) == [i \in 1..Len(text) |-> IF text[i] \in 65..90 THEN text[i] + 32 ELSE text[i]]

\* re.sub('[^0-9a-zA-Z]', '_', text)
Alnum(text) ==
    [i \in 1..Len(text) |->
        IF text[i] \in (48..57) \cup (65..90) \cup (97..122) THEN text[i] ELSE 95]

\* re.sub('\.[^.]+$', repl, text): the pattern matches from the last "." when
\* at least one character follows it, and nowhere otherwise.
ReSubExtension(text, repl) ==
    LET dots == {i \in 1..Len(text) : text[i] = 46}
    IN IF dots = {} THEN text
       ELSE LET last == CHOOSE i \in dots : \A j \in dots : j <= i
            IN IF last = Len(text) THEN text
               ELSE SubSeq(text, 1, last - 1) \o repl

\* The name taken for a plain one when it ends in a recognised extension.
RecognisedAtEnd(value) ==
    \/ EndsWith(value, S_png)
    \/ EndsWith(value, S_dng)
    \/ EndsWith(value, S_mp4)
    \/ EndsWith(value, S_gif)

\* Lines 583-589: the value is returned as it is.
Recognised(value) ==
    \/ Contains(value, S_png)
    \/ Contains(value, S_dng)
    \/ Contains(value, S_mp4)
    \/ Contains(value, S_gif)

\* PhotoAsset.item_type (lines 637-642); the statements after line 642 are
\* never reached.
item_type(master) ==
    LET t == Value(master.fields["itemType"])
    IN IF t \in DOMAIN ITEM_TYPES THEN ITEM_TYPES[t] ELSE "unknown"

\* PhotoAsset.item_type_extension (lines 648-653)
item_type_extension(master) ==
    LET t == Value(master.fields["itemType"])
    IN IF t \in DOMAIN ITEM_TYPE_EXTENSIONS THEN ITEM_TYPE_EXTENSIONS[t] ELSE S_unknown

\* PhotoAsset.filename (lines 579-599): Some(text), or None when decoding
\* the value raises.
filename(master) ==
    LET fields == master.fields
    IN IF "filenameEnc" \in DOMAIN fields /\ fields["filenameEnc"] # None
       THEN LET value == Value(fields["filenameEnc"])
            IN IF Recognised(value) THEN Some(value) ELSE DecodeName(value)
       ELSE LET cleaned == Alnum(master.recordName)
            IN Some(SubSeq(cleaned, 1, IF Len(cleaned) < 12 THEN Len(cleaned) ELSE 12)
                    \o <<46>> \o item_type_extension(master))

\* Line 658 with the memo compared with None: an empty stored map is a hit.
MemoIsNotNone(memo) == memo # None

\* Line 658: `not self._versions` is false, the stored map is returned.
MemoHit(memo) == memo # None /\ DOMAIN Value(memo) # {}

\* fields.get(name): the entry's value, or None (null) without the field.
FieldValue(fields, name) ==
    IF name \in DOMAIN fields THEN fields[name] ELSE None

\* The photo table used for every kind.
PhotoLookupAlways(kind) == PHOTO_VERSION_LOOKUP

\* Lines 661-664
typed_version_lookup(kind) ==
    IF kind = "movie" THEN VIDEO_VERSION_LOOKUP ELSE PHOTO_VERSION_LOOKUP

\* Lines 668-706: the version of one prefix, base being self.filename.
Version(master, prefix, base) ==
    LET fields == master.fields
        type == FieldValue(fields, prefix \o "FileType")
    IN [filename |-> IF item_type(master) = "image" /\ type = Some(T_quicktime)
                     THEN IF EndsWith(Lower(base), S_heic)
                          THEN ReSubExtension(base, S_HEVC_MOV)
                          ELSE ReSubExtension(base, S_MOV)
                     ELSE base,
        width |-> FieldValue(fields, prefix \o "Width"),
        height |-> FieldValue(fields, prefix \o "Height"),
        size |-> Some(Value(fields[prefix \o "Res"]).size),
        url |-> Some(Value(fields[prefix \o "Res"]).downloadURL),
        type |-> type]

\* Lines 659-708: what the loop makes of self._versions; self.filename is
\* evaluated for the first key that is present and raises there, before
\* anything is stored, when the name cannot be decoded.
ComputeVersions(master) ==
    LET table == typed_version_lookup(item_type(master))
        keys == {key \in DOMAIN table : (table[key] \o "Res") \in DOMAIN master.fields}
        base == filename(master)
    IN IF keys # {} /\ base = None
       THEN [raised |-> TRUE, map |-> << >>]
       ELSE [raised |-> FALSE,
             map |-> [key \in keys |-> Version(master, table[key], Value(base))]]

\* The versions property (lines 656-710) read once: the memo after it, the
\* assignments of line 659 it made, and what it returned (None: it raised).
versions ==
    IF MemoHit(_versions)
    THEN [memo |-> _versions, writes |-> 0, ret |-> _versions]
    ELSE LET c == ComputeVersions(Value(entity).master)
         IN [memo |-> Some(c.map), writes |-> 1,
             ret |-> IF c.raised THEN None ELSE Some(c.map)]

\* photo.filename
FilenameAccess ==
    /\ entity # None
    /\ LET name == filename(Value(entity).master)
       IN result' = Some([op |-> "filename", arg |-> "", raised |-> name = None,
                          value |-> name])
    /\ UNCHANGED <<album_vars, iter_vars, niter, modify_reqs, ndelete, svc_vars,
                   _versions, versions_writes, naccess>>

\* photo.versions
VersionsAccess ==
    /\ entity # None
    /\ naccess < MaxAccess
    /\ naccess' = naccess + 1
    /\ LET v == versions
       IN /\ _versions' = v.memo
          /\ versions_writes' = versions_writes + v.writes
          /\ result' = Some([op |-> "versions", arg |-> "", raised |-> v.ret = None,
                             value |-> v.ret])
    /\ UNCHANGED <<album_vars, iter_vars, niter, modify_reqs, ndelete, svc_vars>>

\* the version names download is called with
DownloadArgs == {"original", "large"}

\* photo.download(version) (lines 712-719): None is returned for a version
\* that is not there, else the GET of its url is sent; the property is read
\* at line 714 and, the map being non-empty then, without effect at line 718.
Download ==
    /\ entity # None
    /\ naccess < MaxAccess
    /\ naccess' = naccess + 1
    /\ \E version \in DownloadArgs :
          LET v == versions
          IN /\ _versions' = v.memo
             /\ versions_writes' = versions_writes + v.writes
             /\ result' = Some([op |-> "download", arg |-> version,
                                raised |-> v.ret = None,
                                value |-> IF v.ret = None THEN None
                                          ELSE IF version \notin DOMAIN Value(v.ret)
                                          THEN None
                                          ELSE Value(v.ret)[version].url])
    /\ UNCHANGED <<album_vars, iter_vars, niter, modify_reqs, ndelete, svc_vars>>

(***************************************************************************)
(* The master records a PhotoAsset may be made of.                         *)
(***************************************************************************)
\* "Ab+/0123456789", a recordName
AssetMasterId == <<65, 98, 43, 47, 48, 49, 50, 51, 52, 53, 54, 55, 56, 57>>

\* fields.itemType.value: an image type, a movie type, a type in no table
ItemTypeValues == {"public.jpeg", "com.apple.quicktime-movie", "public.tiff"}

\* base64 of "a.heic", "B.HEIC", "c.jpg", "IMG" and of "e-acute euro-sign"
Enc_a_heic == <<89, 83, 53, 111, 90, 87, 108, 106>>
Enc_B_HEIC == <<81, 105, 53, 73, 82, 85, 108, 68>>
Enc_c_jpg == <<89, 121, 53, 113, 99, 71, 99, 61>>
Enc_IMG == <<83, 85, 49, 72>>
Enc_NonAscii == <<119, 54, 110, 105, 103, 113, 119, 61>>
\* the plain names "x.png", "y.png.bak" and "IMG.JPG"
Raw_x_png == <<120, 46, 112, 110, 103>>
Raw_y_png_bak == <<121, 46, 112, 110, 103, 46, 98, 97, 107>>
Raw_IMG_JPG == <<73, 77, 71, 46, 74, 80, 71>>

FilenameValues ==
    {Enc_a_heic, Enc_B_HEIC, Enc_c_jpg, Enc_IMG, Enc_NonAscii,
     Raw_x_png, Raw_y_png_bak, Raw_IMG_JPG}

\* fields.filenameEnc: absent (<< >>), or present (<<entry>>) with or without
\* a value.
FilenameFields ==
    {<< >>, <<None>>} \cup {<<Some(v)>> : v \in FilenameValues}

\* The rendition fields a master may carry, each with its entry.
ResFieldUniverse ==
    UNION {{<<prefix \o "Res", Some([size |-> 1, downloadURL |-> "url:" \o prefix])>>,
            <<prefix \o "Width", Some(10)>>,
            <<prefix \o "Height", Some(20)>>,
            <<prefix \o "FileType", Some(T_jpeg)>>,
            <<prefix \o "FileType", Some(T_quicktime)>>} :
           prefix \in {PHOTO_VERSION_LOOKUP[k] : k \in DOMAIN PHOTO_VERSION_LOOKUP}}

\* At most MaxResFields of them, no field twice.
ResFieldSets ==
    {P \in {{f[i] : i \in 1..MaxResFields} : f \in [1..MaxResFields -> ResFieldUniverse]}
           \cup {{}} :
        \A p, q \in P : p[1] = q[1] => p = q}

MasterFields(item, name, res) ==
    LET names == {"itemType"} \cup {p[1] : p \in res}
                 \cup (IF name = << >> THEN {} ELSE {"filenameEnc"})
    IN [n \in names |->
           IF n = "itemType" THEN Some(item)
           ELSE IF n = "filenameEnc" THEN name[1]
           ELSE (CHOOSE p \in res : p[1] = n)[2]]

AssetMasters ==
    {[recordType |-> "CPLMaster", recordName |-> AssetMasterId,
      recordChangeTag |-> "mtag",
      fields |-> MasterFields(item, name, res)] :
        item \in ItemTypeValues, name \in FilenameFields, res \in ResFieldSets}

\* A PhotoAsset as PhotoAsset.__init__ leaves it (lines 523-528), on a
\* service and an album on which nothing else was done.
InitAsset ==
    /\ InitService
    /\ direction = "ASCENDING"
    /\ exception_handler = FALSE
    /\ MadeOfTable(N_AllPhotos)
    /\ HandleFresh
    /\ \E master \in AssetMasters :
          entity = Some([master |-> master,
                         asset |-> [recordType |-> "CPLAsset", recordName |-> "a1",
                                    recordChangeTag |-> "atag",
                                    masterRef |-> master.recordName]])

(***************************************************************************)
(* SpecAsset: one PhotoAsset, its filename, versions, download and delete. *)
(***************************************************************************)
NextAsset ==
    \/ FilenameAccess
    \/ VersionsAccess
    \/ Download
    \/ Delete

SpecAsset == InitAsset /\ [][NextAsset]_vars

(***************************************************************************)
(* SpecTwo: two generators over one album handle, advanced in any          *)
(* interleaving, against a store whose pages are consistent.               *)
(***************************************************************************)
\* Pages of no, one or two masters, each master with its asset.
ConsistentPages ==
    {<< >>}
    \cup {<<r[1], r[2]>> : r \in {q \in MasterRecs \X AssetRecs : q[2].masterRef = q[1].recordName}}
    \cup {<<r[1], r[2], r[1]>> : r \in {q \in MasterRecs \X AssetRecs : q[2].masterRef = q[1].recordName}}

\* The store answers with a consistent page.
PageReceivedConsistent == PageReceivedFrom(ConsistentPages)

InitTwo ==
    /\ InitService
    /\ direction \in Directions
    /\ exception_handler = TRUE
    /\ MadeOfTable(N_AllPhotos)
    /\ HandleFresh
    /\ entity = None

NextTwo ==
    \/ IterStart
    \/ PageReceivedConsistent
    \/ RequestFailsHandled
    \/ YieldNext
    \/ Switch

SpecTwo == InitTwo /\ [][NextTwo]_vars

(***************************************************************************)
(* SpecPull: one generator and its consumer, step by step.  The body of    *)
(* photos runs only inside a next() call of the consumer, up to the next   *)
(* yield (line 355) or to its end; session.post (line 302-311) is a call   *)
(* that is sent and then answered.                                         *)
(***************************************************************************)
\* The generator has ended: next() raised StopIteration or an exception.
Ended == it_pc \in {"done", "failed"}

\* The consumer is inside a next() call: the body of photos is running.
Resumed == npulls = nyielded + 1 /\ ~Ended

\* The body is suspended, before its first statement or at the yield.
Suspended == npulls = nyielded /\ ~Ended

\* A request was sent and is not answered yet.
Outstanding == nsent = nrequests + 1

\* The body stands at photos_request while the loop over the page still runs.
AtRequestOrInLoop == it_pc \in {"request", "yield"}

\* The body stands at line 325: the top of `while True`, reached from line
\* 321, from the `continue` of line 330, or when the for loop has ended.
AtRequest == it_pc = "request"

\* The consumer calls next() on the generator.
NextCall ==
    /\ Suspended
    /\ ~stopped
    /\ npulls' = npulls + 1
    /\ UNCHANGED <<direction, exception_handler, _len, count_reqs, len_ret, other,
                   def_vars, nsent, stopped, iter_vars, niter, modify_reqs, ndelete,
                   svc_vars, asset_vars>>

\* The consumer drops the generator before it is drained.
Abandon ==
    /\ Suspended
    /\ ~stopped
    /\ stopped' = TRUE
    /\ UNCHANGED <<direction, exception_handler, _len, count_reqs, len_ret, other,
                   def_vars, nsent, npulls, iter_vars, niter, modify_reqs, ndelete,
                   svc_vars, asset_vars>>

\* The first next(): lines 316-321.
BodyStart == Resumed /\ it_pc = "none" /\ IterStart

\* Line 325: photos_request posts the query.
RequestSent ==
    /\ Resumed
    /\ AtRequest
    /\ nsent = nrequests
    /\ nsent < MaxRequests
    /\ nsent' = nsent + 1
    /\ UNCHANGED <<direction, exception_handler, _len, count_reqs, len_ret, other,
                   def_vars, npulls, stopped, iter_vars, niter, modify_reqs, ndelete,
                   svc_vars, asset_vars>>

\* The post returns a response that decodes.
PageArrives == Resumed /\ Outstanding /\ PageReceived

\* The post returns a response that does not decode.
UndecodableArrives == Resumed /\ Outstanding /\ ResponseDecodeFails

\* The post raises.
FailureArrivesHandled == Resumed /\ Outstanding /\ RequestFailsHandled

FailureArrivesUnhandled == Resumed /\ Outstanding /\ RequestFailsUnhandled

\* Lines 354-358: the body runs to the yield, or the lookup raises.
LoopTurn == Resumed /\ YieldNext

InitPull ==
    /\ InitService
    /\ InitAlbum

NextPull ==
    \/ NextCall
    \/ Abandon
    \/ BodyStart
    \/ RequestSent
    \/ PageArrives
    \/ UndecodableArrives
    \/ FailureArrivesHandled
    \/ FailureArrivesUnhandled
    \/ LoopTurn

SpecPull == InitPull /\ [][NextPull]_vars

(***************************************************************************)
(* SpecQuery: the iteration of handles of several definitions, with the    *)
(* query of every request kept.                                            *)
(***************************************************************************)
\* page_size as __init__ may be given it (line 260).
PageSizes == {DefaultPageSize, 7}

\* A clause a caller may put in the query_filter it constructs a handle with.
Clause(field, value) ==
    [fieldName |-> field, comparator |-> "EQUALS", type |-> "STRING",
     value |-> value]

\* The query_filter argument (line 259) of a handle a caller constructs.
CallerFilters ==
    {None, Some(<< >>), Some(<<Clause("parentId", "F1")>>),
     Some(<<Clause("parentId", "F1"), Clause("smartAlbum", "VIDEO")>>)}

\* Handles made by albums of a folder record, or by a caller.
MadeByCaller ==
    /\ \E query_filter \in CallerFilters, page_size \in PageSizes :
          album_def = Definition(PhotoAlbum(N_Trip,
                                            "CPLContainerRelationLiveByAssetDate",
                                            "CPLContainerRelationNotDeletedByAssetDate:F1",
                                            direction, query_filter),
                                 page_size)
    /\ table_entry = None

InitQuery ==
    /\ InitService
    /\ direction \in Directions
    /\ exception_handler \in BOOLEAN
    /\ \/ MadeOfTable(N_AllPhotos)
       \/ MadeOfTable(N_Videos)
       \/ MadeByCaller
    /\ HandleFresh
    /\ entity = None

NextQuery ==
    \/ IterStart
    \/ PageReceivedConsistent
    \/ ResponseDecodeFails
    \/ RequestFailsHandled
    \/ RequestFailsUnhandled
    \/ YieldNext

SpecQuery == InitQuery /\ [][NextQuery]_vars

(***************************************************************************)
(* Properties of Spec.                                                     *)
(***************************************************************************)
\* The generator has fetched a page and is no longer inside its for loop.
PageLeft == page_n # None /\ it_pc # "yield"

\* The offset the running generator started from.
StartOffset == IF direction = "DESCENDING" THEN Value(_len) - 1 ELSE 0

Signed(n) == IF direction = "DESCENDING" THEN 0 - n ELSE n

\* C1 as stated: once the generator has left a page of n masters, whichever
\* way, n entities were yielded from that page.
C1_EveryPageYieldsAll == PageLeft => page_yielded = Value(page_n)

\* C1, amended: a decoded page of n masters moves the offset by exactly n, up
\* when ASCENDING and down when DESCENDING, before anything is yielded; the
\* page yields one entity per master in turn, all n of them when the generator
\* goes on to the next request, and fewer than n only when the generator stops
\* in it with the KeyError of a master that has no asset in the page.
C1_PageMovesOffsetAndYields ==
    /\ [](/\ (PageLeft /\ it_error # "KeyError") => page_yielded = Value(page_n)
          /\ it_error = "KeyError" => /\ it_pc = "failed"
                                      /\ page_yielded < Value(page_n)
          /\ it_pc = "yield" => page_yielded + Len(master_records) = Value(page_n))
    /\ [][npages' = npages + 1 =>
             /\ offset' = offset + Signed(Value(page_n'))
             /\ page_yielded' = 0
             /\ nyielded' = nyielded]_vars

\* A DESCENDING generator has yielded both entities of a page of two masters.
C1_Witness ==
    /\ direction = "DESCENDING"
    /\ it_pc = "request"
    /\ page_n = Some(2)
    /\ page_yielded = 2
    /\ offset = Value(_len) - 1 - total

\* C2: the generator is exhausted (it returns, no exception) exactly when the
\* page it fetched last holds no master record; such a page yields nothing,
\* whatever asset records it holds, and a page with masters never ends it.
C2_ExhaustedIffNoMasters ==
    /\ (it_pc = "done") <=> (page_n = Some(0))
    /\ page_n = Some(0) => /\ page_yielded = 0
                           /\ master_records = << >>
                           /\ it_error = ""
                           /\ nyielded = total
    /\ it_pc \in {"request", "yield"} /\ page_n # None => Value(page_n) > 0

\* The generator ended on a page that holds an asset record and no master,
\* after a page that yielded.
C2_Witness ==
    /\ it_pc = "done"
    /\ DOMAIN asset_records # {}
    /\ npages = 2
    /\ nyielded = 1

\* C3: a DESCENDING traversal starts at offset count - 1 and an ASCENDING one
\* at 0; every request carries the start moved by the masters of the pages
\* decoded before it; a traversal that met no failed request and ended has
\* sent one request per page, the pages with masters and the empty one; and a
\* DESCENDING traversal whose pages hold count masters in all ends with its
\* last request at startRank -1 after count entities.
C3_StartRanks ==
    /\ [](it_pc = "done" =>
             /\ nyielded = total
             /\ last_handler_call = None => nrequests = npages
             /\ (direction = "DESCENDING" /\ total = Value(_len)) =>
                    /\ Value(last_request).startRank = -1
                    /\ offset = -1
                    /\ nyielded = Value(_len))
    /\ [][nrequests' = nrequests + 1 =>
             Value(last_request').startRank = StartOffset + Signed(total)]_vars
    /\ [][niter' = niter + 1 /\ it_pc' = "request" =>
             offset' = IF direction = "DESCENDING" THEN Value(_len') - 1 ELSE 0]_vars

\* A DESCENDING traversal of an album of two ended after pages of one, one
\* and no master: three requests, the last at startRank -1.
C3_Witness ==
    /\ direction = "DESCENDING"
    /\ it_pc = "done"
    /\ _len = Some(2)
    /\ npages = 3
    /\ nrequests = 3
    /\ total = 2
    /\ nyielded = 2
    /\ Value(last_request).startRank = -1

\* A photos_request call was made in this step.
Requested == nrequests' = nrequests + 1

C10_CountMemoized ==
    /\ [](len_ret # None => len_ret = _len)
    /\ [][_len # None => (_len' = _len /\ count_reqs' = count_reqs)]_vars

\* A memo of 0, set by one query, served a len() call and two DESCENDING
\* iterations, with a delete in between.
C10_Witness ==
    /\ direction = "DESCENDING"
    /\ _len = Some(0)
    /\ len_ret = Some(0)
    /\ count_reqs = 1
    /\ niter = 2
    /\ modify_reqs # << >>

(***************************************************************************)
(* Properties of SpecCatalog.                                              *)
(***************************************************************************)
RECURSIVE Concat(_)
Concat(responses) ==
    IF responses = << >> THEN << >>
    ELSE Head(responses).records \o Concat(Tail(responses))

RECURSIVE SumOfCounts(_)
SumOfCounts(responses) ==
    IF responses = << >> THEN 0
    ELSE Len(Head(responses).records) + SumOfCounts(Tail(responses))

\* The folder records the store has listed so far, in response order.
Listed == Concat(feed)

\* The fetch has received a response without a marker.
FetchComplete == feed # << >> /\ feed[Len(feed)].marker = None

\* C5: the first folder request carries no marker and each follow-up request
\* the marker of the response before it; a request follows only a response
\* with a marker, and none follows the first response without one; the
\* records fetched are those of all the responses, the last included, in
\* response order, as many as the per-response counts add up to.
C5_FolderContinuation ==
    /\ Len(feed) <= Len(folder_requests)
    /\ Len(folder_requests) <= Len(feed) + 1
    /\ \A i \in 1..Len(folder_requests) :
          folder_requests[i] = IF i = 1 THEN None ELSE feed[i - 1].marker
    /\ \A i \in 1..(Len(feed) - 1) : feed[i].marker # None
    /\ FetchComplete => /\ Len(folder_requests) = Len(feed)
                        /\ svc_pc = "idle"
    /\ (FetchComplete \/ svc_pc = "next_request") =>
          /\ records = Listed
          /\ Len(records) = SumOfCounts(feed)

\* A fetch of three responses ended; the first and the last hold a record,
\* and the two markers differ.
C5_Witness ==
    /\ Len(feed) = 3
    /\ FetchComplete
    /\ Len(feed[1].records) = 1
    /\ Len(feed[3].records) = 1
    /\ feed[1].marker # feed[2].marker
    /\ Len(records) = 2

\* An album made of a folder record, not of SMART_FOLDERS.
FolderDerived(album) == album.list_type = "CPLContainerRelationLiveByAssetDate"

\* The folder identifier in the parentId filter of a folder album.
FolderIdOf(album) == Value(album.query_filter)[1].value

\* C6: every folder album of the catalog is made of a listed folder record
\* that is not the root folder and whose isDeleted flag is absent or false;
\* no album carries the root folder's identifier.
C6_NoRootNoDeleted ==
    _albums # None =>
        \A name \in DOMAIN Value(_albums) :
            LET album == Value(_albums)[name]
            IN FolderDerived(album) =>
                  /\ FolderIdOf(album) # RootFolder
                  /\ \E i \in 1..Len(Listed) :
                        LET f == Listed[i]
                        IN /\ f.recordName = FolderIdOf(album)
                           /\ f.recordName # RootFolder
                           /\ f.isDeleted \in {None, Some(0)}
                           /\ f.albumNameEnc # None
                           /\ DecodeName(Value(f.albumNameEnc)) = Some(name)
                           /\ album.obj_type =
                                 "CPLContainerRelationNotDeletedByAssetDate:" \o f.recordName

\* The catalog was built from a listing whose first response holds a folder
\* flagged deleted and whose second one holds the root folder, both named:
\* it holds the smart albums alone.
C6_Witness ==
    /\ ret = "built"
    /\ Len(feed) = 2
    /\ feed[1].records = <<[recordName |-> "F1", albumNameEnc |-> Some(Enc_Trip),
                            isDeleted |-> Some(1)]>>
    /\ feed[2].records = <<[recordName |-> RootFolder, albumNameEnc |-> Some(Enc_Trip),
                            isDeleted |-> None]>>
    /\ DOMAIN Value(_albums) = DOMAIN SMART_FOLDERS

SmartNames ==
    {N_AllPhotos, N_Timelapse, N_Videos, N_Slomo, N_Bursts, N_Favorites,
     N_Panoramas, N_Screenshots, N_Live, N_RecentlyDeleted, N_Hidden}

\* C7: the catalog holds the 11 smart-collection names whatever the store
\* lists, and they are all it holds before the first folder request is sent.
C7_SmartNamesAlways ==
    /\ Cardinality(SmartNames) = 11
    /\ _albums # None => SmartNames \subseteq DOMAIN Value(_albums)
    /\ svc_pc = "first_request" => /\ folder_requests = << >>
                                   /\ DOMAIN Value(_albums) = SmartNames

\* albums returned a catalog built from a listing of a folder "Trip" and a
\* folder "All Photos": 12 names, the 11 smart ones among them.
C7_Witness ==
    /\ ret = "built"
    /\ svc_op = "albums"
    /\ N_Trip \in DOMAIN Returned
    /\ FolderDerived(Returned[N_AllPhotos])
    /\ Cardinality(DOMAIN Returned) = 12

\* C8: whatever the store lists, all returns the smart collection
\* "All Photos": list type CPLAssetAndMasterByAddedDate, count type
\* CPLAssetByAddedDate, no filter, never an album made of a folder.
C8_AllIsSmartCollection ==
    (ret \in {"built", "cached"} /\ svc_op = "all") =>
        /\ Returned.list_type = "CPLAssetAndMasterByAddedDate"
        /\ Returned.obj_type = "CPLAssetByAddedDate"
        /\ Returned.query_filter = None
        /\ ~FolderDerived(Returned)

\* The folder requests that carry no marker: each starts a listing.
FirstRequests == {i \in 1..Len(folder_requests) : folder_requests[i] = None}

\* C9: the folder listing is started at most once on a service, and once
\* self._albums is stored and no access is running, every access returns it
\* unchanged without a request.
C9_CatalogBuiltOnce ==
    /\ [](Cardinality(FirstRequests) <= 1)
    /\ [][(svc_pc = "idle" /\ _albums # None) =>
             /\ _albums' = _albums
             /\ folder_requests' = folder_requests
             /\ ret' = "cached"]_vars

\* all returned the stored catalog's entry after a listing of two responses
\* that registered a folder.
C9_Witness ==
    /\ ret = "cached"
    /\ svc_op = "all"
    /\ Len(feed) = 2
    /\ Len(folder_requests) = 2
    /\ Cardinality(DOMAIN Value(_albums)) = 12

\* C11: constructing the service sends exactly one request, the index query;
\* it returns exactly when the state read is "FINISHED" and raises
\* PyiCloudServiceNotActivatedException for any other state read; the step
\* sends no folder, count, item-list or modify request and leaves the catalog
\* unbuilt, and no later step sends an index query.
C11_ConstructionChecksIndex ==
    /\ [](/\ index_reqs = (IF constructed = "new" THEN 0 ELSE 1)
          /\ constructed = "ready" <=> indexing_state = Some("FINISHED")
          /\ (indexing_state # None /\ indexing_state # Some("FINISHED"))
                <=> constructed = "not_activated"
          /\ constructed # "ready" => /\ _albums = None
                                      /\ folder_requests = << >>)
    /\ [][index_reqs' # index_reqs =>
             /\ constructed = "new"
             /\ _albums' = None
             /\ folder_requests' = << >>
             /\ count_reqs' = 0
             /\ nrequests' = 0
             /\ modify_reqs' = << >>]_vars

\* The store answered "finished" in lower case: the constructor raised the
\* not-activated error after its one request.
C11_Witness ==
    /\ constructed = "not_activated"
    /\ indexing_state = Some("finished")
    /\ index_reqs = 1

(***************************************************************************)
(* Properties of SpecAsset.                                                *)
(***************************************************************************)
\* The master record of the PhotoAsset.
Master == Value(entity).master

\* The latest call was `op` and it returned.
CallReturned(op) == result # None /\ Value(result).op = op /\ ~Value(result).raised

\* The version keys of the table of a kind with the prefix each stands for:
\* three for a movie, six for anything else.
TableOf(kind) ==
    IF kind = "movie"
    THEN {<<"original", "resOriginal">>, <<"medium", "resVidMed">>,
          <<"thumb", "resVidSmall">>}
    ELSE {<<"original", "resOriginal">>, <<"medium", "resJPEGMed">>,
          <<"thumb", "resJPEGThumb">>, <<"originalVideo", "resOriginalVidCompl">>,
          <<"mediumVideo", "resVidMed">>, <<"thumbVideo", "resVidSmall">>}

\* The entries of that table whose Res field the master carries.
PresentEntries(master) ==
    {e \in TableOf(item_type(master)) : (e[2] \o "Res") \in DOMAIN master.fields}

\* C12: the keys of the map versions returns are exactly the keys of the
\* table of the entity's kind (the 3-entry one for a movie, the 6-entry one
\* otherwise, kind unknown included) whose <prefix>Res field is on the master
\* record; a key without it is not in the map; the width, height and type of
\* a key are the values of its Width, Height and FileType fields, null for a
\* field that is missing.  versions raises only when a key is present and the
\* filename cannot be decoded.
C12_VersionKeys ==
    (result # None /\ Value(result).op = "versions") =>
        LET r == Value(result)
            present == PresentEntries(Master)
        IN /\ Cardinality(TableOf("movie")) = 3
           /\ Cardinality(TableOf("image")) = 6
           /\ r.raised <=> (present # {} /\ filename(Master) = None)
           /\ ~r.raised =>
                 /\ DOMAIN Value(r.value) = {e[1] : e \in present}
                 /\ \A e \in present :
                       LET v == Value(r.value)[e[1]]
                           has(suffix) == (e[2] \o suffix) \in DOMAIN Master.fields
                       IN /\ v.width = (IF has("Width") THEN Some(10) ELSE None)
                          /\ v.height = (IF has("Height") THEN Some(20) ELSE None)
                          /\ has("FileType") <=> v.type # None
                          /\ has("FileType") => v.type = Master.fields[e[2] \o "FileType"]
                          /\ v.size = Some(1)

\* An entity of unknown kind whose master carries resOriginalRes and, without
\* resJPEGMedRes, resJPEGMedWidth: versions returned the key original alone,
\* its width, height and type null.
C12_Witness ==
    /\ CallReturned("versions")
    /\ item_type(Master) = "unknown"
    /\ "resJPEGMedWidth" \in DOMAIN Master.fields
    /\ DOMAIN Value(Value(result).value) = {"original"}
    /\ Value(Value(result).value)["original"].width = None
    /\ Value(Value(result).value)["original"].height = None
    /\ Value(Value(result).value)["original"].type = None

\* The map the latest versions call returned.
VersionMap == Value(Value(result).value)

\* C13: in the map versions returns for an image-kind entity, a version whose
\* type is com.apple.quicktime-movie has a filename ending in _HEVC.MOV when
\* the entity's filename ends in .heic, whatever the case, and one ending in
\* .MOV for any other filename; the versions of another type, and all the
\* versions of a movie-kind entity, have the entity's filename.
C13_ExtensionRewrite ==
    CallReturned("versions") =>
        \A key \in DOMAIN VersionMap :
            LET v == VersionMap[key]
                base == Value(filename(Master))
            IN IF item_type(Master) = "image" /\ v.type = Some(T_quicktime)
               THEN IF EndsWith(Lower(base), S_heic)
                    THEN EndsWith(v.filename, S_HEVC_MOV)
                    ELSE EndsWith(v.filename, S_MOV)
               ELSE item_type(Master) \in {"image", "movie"} => v.filename = base

\* UTF-8 and base64 as a producer of the name field encodes a text.
RECURSIVE utf8_encode(_)
utf8_encode(text) ==
    IF text = << >> THEN << >>
    ELSE LET c == Head(text)
             bytes == IF c < 128 THEN <<c>>
                      ELSE IF c < 2048 THEN <<192 + (c \div 64), 128 + (c % 64)>>
                      ELSE IF c < 65536
                      THEN <<224 + (c \div 4096), 128 + ((c \div 64) % 64), 128 + (c % 64)>>
                      ELSE <<240 + (c \div 262144), 128 + ((c \div 4096) % 64),
                             128 + ((c \div 64) % 64), 128 + (c % 64)>>
         IN bytes \o utf8_encode(Tail(text))

B64Char(v) ==
    IF v < 26 THEN 65 + v
    ELSE IF v < 52 THEN 71 + v
    ELSE IF v < 62 THEN v - 4
    ELSE IF v = 62 THEN 43
    ELSE 47

RECURSIVE b64encode(_)
b64encode(b) ==
    IF b = << >> THEN << >>
    ELSE IF Len(b) = 1
    THEN <<B64Char(b[1] \div 4), B64Char((b[1] % 4) * 16), 61, 61>>
    ELSE IF Len(b) = 2
    THEN <<B64Char(b[1] \div 4), B64Char((b[1] % 4) * 16 + (b[2] \div 16)),
           B64Char((b[2] % 16) * 4), 61>>
    ELSE <<B64Char(b[1] \div 4), B64Char((b[1] % 4) * 16 + (b[2] \div 16)),
           B64Char((b[2] % 16) * 4 + (b[3] \div 64)), B64Char(b[3] % 64)>>
         \o b64encode(SubSeq(b, 4, Len(b)))

Encode(text) == b64encode(utf8_encode(text))

\* "a.heic", "B.HEIC", "c.jpg", "IMG" and a text of U+00E9 and U+20AC
Texts ==
    {<<97, 46, 104, 101, 105, 99>>, <<66, 46, 72, 69, 73, 67>>,
     <<99, 46, 106, 112, 103>>, <<73, 77, 71>>, <<233, 8364>>}

\* The latest call was filename, on a master whose name field has a value.
FilenameOfValue ==
    /\ result # None
    /\ Value(result).op = "filename"
    /\ "filenameEnc" \in DOMAIN Master.fields
    /\ Master.fields["filenameEnc"] # None

NameValue == Value(Master.fields["filenameEnc"])

\* A text encoded and handed to filename comes back.
RoundTrip ==
    \A text \in Texts :
        NameValue = Encode(text) => Value(result).value = Some(text)

\* C14 as stated: a value that ends in .png, .dng, .mp4 or .gif is returned
\* as it is, and every other value is base64-decoded as UTF-8 text (the call
\* raising when that fails), so that an encoded text comes back.
C14_PassThroughAtEnd ==
    FilenameOfValue =>
        /\ RecognisedAtEnd(NameValue) => Value(result).value = Some(NameValue)
        /\ ~RecognisedAtEnd(NameValue) =>
              /\ Value(result).value # Some(NameValue)
              /\ Value(result).raised <=> (b64decode(NameValue) = None
                                           \/ utf8_decode(Value(b64decode(NameValue)), << >>) = None)
        /\ RoundTrip

\* C14, amended: a value that contains .png, .dng, .mp4 or .gif anywhere,
\* not only at its end, is returned as it is; every other value is
\* base64-decoded as UTF-8 text, the call raising when that fails; a text
\* encoded as UTF-8 and base64 comes back as it was.
C14_PassThroughAnywhere ==
    FilenameOfValue =>
        /\ (\E ext \in {S_png, S_dng, S_mp4, S_gif} : Contains(NameValue, ext)) =>
              /\ Value(result).value = Some(NameValue)
              /\ ~Value(result).raised
        /\ (\A ext \in {S_png, S_dng, S_mp4, S_gif} : ~Contains(NameValue, ext)) =>
              /\ Value(result).value = DecodeName(NameValue)
              /\ Value(result).raised <=> DecodeName(NameValue) = None
        /\ RoundTrip

\* filename returned the text of U+00E9 and U+20AC for its encoding w6nigqw=.
C14_Witness ==
    /\ FilenameOfValue
    /\ NameValue = Encode(<<233, 8364>>)
    /\ NameValue = Enc_NonAscii
    /\ Value(result).value = Some(<<233, 8364>>)

\* C17: the map of one PhotoAsset is computed at most once, whatever its
\* master record holds: self._versions is assigned a new map by the first
\* versions or download access alone.
C17_VersionsComputedOnce == versions_writes <= 1

\* C15: a modify request is sent by delete alone, one per call; it is one
\* atomic update that sets isDeleted to 1, keyed by the asset record's
\* recordName and recordType and by the master record's recordChangeTag; the
\* call leaves the catalog memo, the count memo and the versions memo as
\* they were.
C15_OnlyDeleteWrites ==
    /\ [](Len(modify_reqs) = ndelete)
    /\ [][ndelete' = ndelete => modify_reqs' = modify_reqs]_vars
    /\ [][ndelete' # ndelete =>
             /\ ndelete' = ndelete + 1
             /\ modify_reqs' =
                   Append(modify_reqs,
                          [operationType |-> "update",
                           recordName |-> Value(entity).asset.recordName,
                           recordType |-> Value(entity).asset.recordType,
                           recordChangeTag |-> Value(entity).master.recordChangeTag,
                           isDeleted |-> 1,
                           atomic |-> TRUE])
             /\ _albums' = _albums
             /\ _len' = _len
             /\ _versions' = _versions
             /\ versions_writes' = versions_writes]_vars

\* delete was called on a PhotoAsset whose versions were computed: one request
\* for the asset record a1 with the master's change tag, the memo still there.
C15_Witness ==
    /\ ndelete = 1
    /\ modify_reqs = <<[operationType |-> "update", recordName |-> "a1",
                        recordType |-> "CPLAsset", recordChangeTag |-> "mtag",
                        isDeleted |-> 1, atomic |-> TRUE]>>
    /\ MemoHit(_versions)
    /\ result # None
    /\ Value(result).op = "download"

(***************************************************************************)
(* Further properties of Spec.                                             *)
(***************************************************************************)
\* The latest photos_request call of the generator raised.
LastFailed == last_request # None /\ ~Value(last_request).ok

\* C16: within one iteration the attempt count handed to the handler is one
\* more than the count of the failure right before it when the request before
\* it failed too, and 1 when no request was made before or the request
\* before it succeeded; the counter is zero after every request that succeeded.
C16_AttemptsCountRuns ==
    /\ [](it_pc # "none" /\ ~LastFailed => exception_retries = 0)
    /\ [](LastFailed /\ exception_handler =>
             /\ last_handler_call # None
             /\ Value(last_handler_call).attempt = exception_retries)
    /\ [][(Requested /\ ~Value(last_request').ok /\ exception_handler) =>
             Value(last_handler_call').attempt =
                 IF LastFailed THEN Value(last_handler_call).attempt + 1 ELSE 1]_vars

\* A failure reported with attempt 1, a page of one master fetched and
\* yielded, then a failure reported with attempt 1 again.
C16_Witness ==
    /\ exception_handler
    /\ nrequests = 3
    /\ npages = 1
    /\ nyielded = 1
    /\ LastFailed
    /\ it_pc = "request"
    /\ Value(last_handler_call).attempt = 1

\* The master records of a response, in response order.
MastersOf(recs) == SelectSeq(recs, LAMBDA rec : rec.recordType = "CPLMaster")

HasAssetInPage(master) ==
    \E i \in 1..Len(page) :
        /\ page[i].recordType = "CPLAsset"
        /\ page[i].masterRef = master.recordName

\* C19 as stated: when the generator ends with the lookup failure of a master
\* that has no asset in its page, no entity was yielded from that page.
C19_NothingYieldedFromPage == it_error = "KeyError" => page_yielded = 0

\* C19, amended: a master without an asset record in its page is never
\* passed over: the generator ends there with a KeyError, after the entities
\* of the masters before it in the page and with none for it or for a master
\* after it; nothing is requested or yielded afterwards, and the handler is
\* not called for this failure.  The generator goes on past a page only when
\* every master of it was yielded.
C19_MissingAssetIsFatal ==
    /\ [](it_error = "KeyError" =>
             /\ it_pc = "failed"
             /\ page_yielded < Len(MastersOf(page))
             /\ ~HasAssetInPage(MastersOf(page)[page_yielded + 1])
             /\ \A j \in 1..page_yielded : HasAssetInPage(MastersOf(page)[j]))
    /\ [](it_pc \in {"request", "done"} =>
             /\ page_yielded = Len(MastersOf(page))
             /\ \A j \in 1..Len(MastersOf(page)) : HasAssetInPage(MastersOf(page)[j]))
    /\ [][(it_error' = "KeyError" /\ niter' = niter) =>
             /\ nrequests' = nrequests
             /\ nyielded' = nyielded
             /\ last_handler_call' = last_handler_call
             /\ exception_retries' = exception_retries]_vars
    /\ [][(it_error = "KeyError" /\ niter' = niter) => it_error' = "KeyError"]_vars

\* With a handler set, the page m1, its asset, m2 yielded the entity of m1
\* and ended the generator at m2; the handler was never called.
C19_Witness ==
    /\ exception_handler
    /\ it_error = "KeyError"
    /\ page_yielded = 1
    /\ Len(MastersOf(page)) = 2
    /\ MastersOf(page)[2].recordName = "m2"
    /\ last_handler_call = None

(***************************************************************************)
(* C20: cursor state belongs to one iteration, not to the album handle.    *)
(* Checked under SpecTwo, where the consumer advances two generators over  *)
(* one handle in any interleaving.                                         *)
(***************************************************************************)
\* A generator that is alone requests at the initial offset moved on by the
\* masters of the pages it received itself; its frame holds that offset.
CursorOfFrame(frame) ==
    frame.it_pc \in {"request", "yield", "done"}
        => frame.offset = StartOffset + Signed(frame.total)

\* A step by which the generator being advanced sends an item-list request.
RequestStep == nrequests' = nrequests + 1 /\ other' = other

\* A step by which a fresh generator is resumed for the first time.
FreshStep == niter' = niter + 1 /\ it_pc' = "request"

\* C20: a fresh iteration starts from the initial offset of the direction
\* (zero, or count minus one) with a zero retry counter, whatever an earlier
\* iteration did; and with two iterations over one handle advanced in any
\* interleaving, each requests the startRank values it would request alone:
\* the initial offset moved on by the masters it received itself.
C20_CursorPerIteration ==
    /\ [](CursorOfFrame(Frame) /\ CursorOfFrame(other))
    /\ [][RequestStep =>
            Value(last_request').startRank = StartOffset + Signed(total)]_vars
    /\ [][FreshStep =>
            /\ offset' = (IF direction = "DESCENDING" THEN Value(_len') - 1 ELSE 0)
            /\ exception_retries' = 0
            /\ other' = other]_vars

\* C20 happens: two generators over the handle have each received a page and
\* go on; the one being advanced has sent its second request, at a startRank
\* that is neither the initial offset nor the offset the other one holds.
C20_Witness ==
    /\ niter = 2
    /\ nrequests = 2 /\ npages = 2
    /\ other.it_pc = "request" /\ other.npages = 1
    /\ Value(last_request).startRank # other.offset
    /\ Value(last_request).startRank # StartOffset

(***************************************************************************)
(* C21: item iteration is pull-driven, with no read-ahead.  Checked under  *)
(* SpecPull, where the next() calls of the consumer and the sending and    *)
(* the answering of a request are steps of their own.                      *)
(***************************************************************************)
\* Every entity of the latest decoded page was yielded to the consumer.
PagePulled ==
    /\ master_records = << >>
    /\ page_yielded = (IF page_n = None THEN 0 ELSE Value(page_n))

\* A step that sends an item-list request.
SendStep == nsent' = nsent + 1

\* C21: a list request is sent only inside a next() call of the consumer,
\* when every earlier request was answered and every entity of the page
\* received before was pulled; at most one request is outstanding at any
\* time; and once the consumer has stopped pulling, no request is sent.
C21_PullDriven ==
    /\ [](nsent = nrequests \/ Outstanding)
    /\ [][SendStep => Resumed /\ nsent = nrequests /\ PagePulled]_vars
    /\ [][stopped => nsent' = nsent /\ nrequests' = nrequests /\ stopped']_vars

\* C21 happens: the second page was requested and received, and the consumer
\* dropped the generator with entities of that page not pulled.
C21_Witness ==
    /\ stopped
    /\ nsent = 2 /\ npages = 2
    /\ it_pc = "yield"
    /\ page_yielded >= 1
    /\ master_records # << >>

(***************************************************************************)
(* C22: what an item-list request carries, and what building it leaves     *)
(* alone.  Checked under SpecQuery.                                        *)
(***************************************************************************)
\* The extra filters of the handle: none for None and for an empty list.
ExtraFilters ==
    IF album_def.query_filter = None THEN << >> ELSE Value(album_def.query_filter)

\* A step by which photos_request is called: the first request, a later
\* page, or the retry after a handled failure.
PhotosRequestStep == nrequests' = nrequests + 1

\* C22: every item-list request carries the clauses startRank == the offset
\* of the generator and direction == the direction of the album, followed by
\* the extra filters of the album, so 2 + the number of extra filters in
\* all, with a results limit of twice the page size and the list query type
\* of the album; no step changes the name, the query types, the direction,
\* the extra filters or the page size of the album, nor SMART_FOLDERS.
C22_RequestFilter ==
    /\ [][PhotosRequestStep =>
            /\ query' # None
            /\ Value(query').filterBy = BaseFilter(offset, direction) \o ExtraFilters
            /\ Len(Value(query').filterBy) = 2 + Len(ExtraFilters)
            /\ Value(query').resultsLimit = 2 * album_def.page_size
            /\ Value(query').recordType = album_def.list_type]_vars
    /\ [][album_def' = album_def /\ direction' = direction]_vars
    /\ [](SmartFoldersNow = SMART_FOLDERS)

\* C22 happens: on a handle with two extra filters and a page size of 7, a
\* page was received and the request after it, sent at another offset,
\* failed and is to be retried; its query holds four clauses.
C22_Witness ==
    /\ query # None
    /\ Len(ExtraFilters) = 2
    /\ Len(Value(query).filterBy) = 4
    /\ Value(query).resultsLimit = 14
    /\ npages >= 1
    /\ it_pc = "request"
    /\ last_request # None
    /\ ~Value(last_request).ok
    /\ Value(last_request).startRank # StartOffset

(***************************************************************************)
(* C23: folder registration, last write wins.  Checked under SpecCatalog.  *)
(***************************************************************************)
\* A folder record with a name that is neither the root nor soft-deleted.
Eligible(folder) ==
    /\ folder.albumNameEnc # None
    /\ folder.recordName # RootFolder
    /\ (folder.isDeleted = None \/ Value(folder.isDeleted) = 0)

\* The positions in the listing of the eligible folders whose name does not
\* decode.
Undecodable ==
    {i \in 1..Len(Listed) :
        Eligible(Listed[i]) /\ DecodeName(Value(Listed[i].albumNameEnc)) = None}

\* The positions of the listing the registration loop went through.
Reached ==
    IF Undecodable = {} THEN 1..Len(Listed)
    ELSE 1..((CHOOSE i \in Undecodable : \A j \in Undecodable : i <= j) - 1)

\* The positions of the eligible folders reached that decode to folder_name.
NamedAt(folder_name) ==
    {i \in Reached :
        Eligible(Listed[i])
        /\ DecodeName(Value(Listed[i].albumNameEnc)) = Some(folder_name)}

\* The names the folders of the listing decode to.
ListedNames ==
    {Value(DecodeName(e)) : e \in {f \in EncNames : DecodeName(f) # None}}

\* The collection of a folder: ascending, with the filter parentId == the
\* folder identifier and a count type that embeds the folder identifier.
CollectionOfFolder(folder, folder_name) ==
    [name |-> folder_name,
     list_type |-> "CPLContainerRelationLiveByAssetDate",
     obj_type |-> "CPLContainerRelationNotDeletedByAssetDate:" \o folder.recordName,
     direction |-> "ASCENDING",
     query_filter |-> Some(<<[fieldName |-> "parentId", comparator |-> "EQUALS",
                              type |-> "STRING", value |-> folder.recordName]>>)]

\* The last position of a non-empty set of positions.
Last(positions) == CHOOSE i \in positions : \A j \in positions : j <= i

\* C23: when the whole listing was fetched and the registration loop has
\* run, a folder record without a name was passed over without an error,
\* and each name that eligible folders the loop went through decode to is
\* held by the collection of the last of these folders in feed order; the
\* other names of the catalog are the smart collections.  The access raised
\* only if the name of an eligible folder does not decode.
C23_LastWriteWins ==
    (svc_pc = "idle" /\ FetchComplete) =>
        /\ DOMAIN Value(_albums) =
              DOMAIN SMART_FOLDERS \cup {n \in ListedNames : NamedAt(n) # {}}
        /\ \A n \in DOMAIN Value(_albums) :
              Value(_albums)[n] =
                 IF NamedAt(n) = {} THEN SmartAlbums[n]
                 ELSE CollectionOfFolder(Listed[Last(NamedAt(n))], n)
        /\ ret = "raised" => Undecodable # {}
        /\ ret = "built" => Undecodable = {}

\* C23 happens: two eligible folders of the listing decode to the same name,
\* and the catalog holds the collection of the second under that name.
C23_Witness ==
    /\ svc_pc = "idle"
    /\ FetchComplete
    /\ ret = "built"
    /\ Len(Listed) = 2
    /\ Eligible(Listed[1]) /\ Eligible(Listed[2])
    /\ Listed[1].recordName # Listed[2].recordName
    /\ NamedAt(N_Trip) = {1, 2}
    /\ Value(_albums)[N_Trip] = CollectionOfFolder(Listed[2], N_Trip)

(***************************************************************************)
(* C24: the catalog that is kept and returned is never a partly built one. *)
(* Checked under SpecCatalog.                                              *)
(***************************************************************************)
\* The map holds a collection made of a folder for every eligible folder
\* record of a listing that was fetched to its end.
CatalogComplete ==
    /\ FetchComplete
    /\ \A i \in 1..Len(Listed) :
          Eligible(Listed[i]) =>
             LET folder_name == DecodeName(Value(Listed[i].albumNameEnc))
             IN /\ folder_name # None
                /\ Value(folder_name) \in DOMAIN Value(_albums)
                /\ FolderDerived(Value(_albums)[Value(folder_name)])

\* C24 as stated: every map albums returns, or all uses, is complete; and
\* when the access that builds the catalog raised, on a folder request or on
\* the decoding of a folder name, no map is kept, so that the next access
\* builds the catalog anew.
C24_NeverPartial ==
    /\ ret \in {"built", "cached"} => CatalogComplete
    /\ (svc_pc = "idle" /\ ret = "raised") => MustBuild

=============================================================================
